---- MODULE Spec2Model ----
(***************************************************************************)
(* A model of pipeline_execution_fetcher.py: the sequential run of main()  *)
(* over the projects, fetch_project_executions with its probe, its plain   *)
(* page walk and its 10-day split, fetch_project_executions_batch, the     *)
(* retry loop of fetch_pipeline_executions, fetch_all_projects and the     *)
(* incremental CSV output. Spec runs it against a remote API that answers  *)
(* from the executions it holds; SpecAny also on any credentials and       *)
(* against project listings and answers of any shape.                      *)
(*                                                                         *)
(* Timestamps are milliseconds counted from a fixed epoch offset, so that  *)
(* the 10-day width keeps its real value within TLC's integers.            *)
(*                                                                         *)
(* The remote API holds, per time stamp, a group of n executions that all  *)
(* carry the same layoutNodeMap; a page's content and the parsed records   *)
(* are sequences of such groups (a group of n executions with k qualifying *)
(* stages stands for the n*k rows e1s1..e1sk, e2s1, ...).                  *)
(***************************************************************************)
EXTENDS Integers, Sequences, FiniteSets, TLC

\* ------------------------------------------------------------ constants

\* `if total_elements <= 10000` of fetch_project_executions
SplitThreshold == 10000

\* batch_size_ms of fetch_project_executions
batch_size_ms == 10 * 24 * 60 * 60 * 1000

\* max_retries of fetch_pipeline_executions
max_retries == 3

\* The remote API serves at most this many results for one time range.
ServerCap == 10000

\* ------------------------------------------------------------ bounds

\* Failed HTTP attempts the remote API may produce in one run.
MaxFailures == 3

\* ------------------------------------------------------------ inputs

StartTimes == {86400000}

EndOffsets == {0, batch_size_ms - 1, batch_size_ms, batch_size_ms + 1}

PageSizes == {5000}

\* Offsets from start_time at which the remote API may hold executions.
TimeOffsets == {0, batch_size_ms, batch_size_ms + 1}

\* An entry of a layoutNodeMap: the node's name, whether its moduleInfo has
\* a cd entry, and the type of that entry's infraExecutionSummary.
Node(name, type) == [ name |-> name, cd |-> TRUE, type |-> type ]

\* n executions at one time stamp, each with the same layoutNodeMap.
GroupKinds ==
    { [n |-> 0, layoutNodeMap |-> <<>>],
      [n |-> 1, layoutNodeMap |-> << Node("a", "PreProduction") >>],
      [n |-> 10000, layoutNodeMap |-> << Node("a", "Production") >>],
      [n |-> 10001, layoutNodeMap |-> << Node("a", "Production"),
                                         Node("b", "PreProduction"),
                                         Node("c", "Production") >>] }

ProjectIds == {"p1", "p2"}

\* The project-listing pages the remote API may hold.
ProjectListings ==
    { <<>>, << <<"p1">>, <<"p2">> >> }

\* --auth-token and --api-key: "" stands for "not given".
Credentials ==
    [auth_token : {"", "Bearer t"}, api_key : {"", "k"}]

\* The command lines: project_id "" stands for "not given".
CommandLines(creds) ==
    { c \in [project_id : {"", "p1"}, exclude_projects : {{}, {"p1"}},
             page_size : PageSizes, start_time : StartTimes,
             end_time : {s + o : s \in StartTimes, o \in EndOffsets},
             auth_token : {k.auth_token : k \in creds},
             api_key : {k.api_key : k \in creds}] :
        /\ c.end_time \in {c.start_time + o : o \in EndOffsets}
        /\ c.project_id # "" => c.exclude_projects = {}
        /\ [auth_token |-> c.auth_token, api_key |-> c.api_key] \in creds }

\* The command lines of a run with the bearer token alone.
Configs == CommandLines({k \in Credentials : k.auth_token # "" /\ k.api_key = ""})

Datasets(c) ==
    LET pts == {c.start_time + o : o \in TimeOffsets} \cap c.start_time..c.end_time
    IN  { d \in [pts -> GroupKinds] : Cardinality({t \in pts : d[t].n > 0}) <= 2 }

VARIABLES
    args,             \* the parsed command line (immutable)
    data,             \* remote API: time stamp -> group of executions
    projPages,        \* remote API: the project-listing pages
    answers,          \* remote API: answers it gives in place of its data
    pc,               \* position of the run
    all_projects,     \* fetch_all_projects
    page_index,       \* fetch_all_projects
    projects,         \* main
    idx,              \* main: 1-based position in projects
    total_records,    \* main
    csv_initialized,  \* main
    csv_file,         \* the lines of the output file
    total_elements,   \* fetch_project_executions
    total_pages,      \* fetch_project_executions
    page,             \* fetch_project_executions: next page of the plain walk
    all_records,      \* fetch_project_executions
    current_start,    \* fetch_project_executions
    current_end,      \* fetch_project_executions
    batch_page,       \* fetch_project_executions_batch: page
    batch_all,        \* fetch_project_executions_batch: all_records
    attempt,          \* fetch_pipeline_executions: attempt
    path,             \* branch taken by the current fetch_project_executions
    log,              \* history: HTTP attempts and sleeps of the run
    call_start,       \* history: Len(log) when the current project fetch began
    subs,             \* history: sub-windows handed to the batch fetcher
    results,          \* history: what fetch_project_executions returned, per project
    failures          \* history: failed HTTP attempts so far

vars ==
    << args, data, projPages, answers, pc, all_projects, page_index, projects, idx,
       total_records, csv_initialized, csv_file, total_elements, total_pages,
       page, all_records, current_start, current_end, batch_page, batch_all,
       attempt, path, log, call_start, subs, results, failures >>

\* ------------------------------------------------------------ helpers

\* dict.get(k, default); the empty dict is <<>>
Get(d, k, default) == IF k \in DOMAIN d THEN d[k] ELSE default

Min(a, b) == IF a <= b THEN a ELSE b

Max(a, b) == IF a >= b THEN a ELSE b

SetMax(S) == CHOOSE m \in S : \A x \in S : x <= m

RECURSIVE Descending(_)
\* The members of a set of integers, largest first (sort=startTs,DESC).
Descending(S) ==
    IF S = {} THEN <<>> ELSE <<SetMax(S)>> \o Descending(S \ {SetMax(S)})

RECURSIVE SelectSeqBy(_, _)
SelectSeqBy(s, S) ==
    IF s = <<>> THEN <<>>
    ELSE (IF Head(s) \in S THEN <<Head(s)>> ELSE <<>>) \o SelectSeqBy(Tail(s), S)

RECURSIVE RowCount(_)
\* len() of a list of records: the rows the groups stand for.
RowCount(recs) ==
    IF recs = <<>> THEN 0
    ELSE Head(recs).n * Len(Head(recs).stages) + RowCount(Tail(recs))

\* ------------------------------------------------------------ remote API

\* Time stamps of the executions matching timeRange [s, e].
Matching(s, e) == {t \in DOMAIN data : s <= t /\ t <= e /\ data[t].n > 0}

RECURSIVE CountAll(_)
CountAll(S) ==
    IF S = {} THEN 0
    ELSE LET t == CHOOSE x \in S : TRUE IN data[t].n + CountAll(S \ {t})

TotalElements(s, e) == CountAll(Matching(s, e))

TotalPagesFor(total, size) == (total + size - 1) \div size

RECURSIVE Slice(_, _, _, _)
\* The executions of ranks lo..hi-1 among the groups ts (largest time first),
\* `before` being the rank of the first execution of Head(ts).
Slice(ts, before, lo, hi) ==
    IF ts = <<>> THEN <<>>
    ELSE LET g == data[Head(ts)]
             k == Min(hi, before + g.n) - Max(lo, before)
         IN  (IF k > 0 THEN << [ts |-> Head(ts), n |-> k,
                                 layoutNodeMap |-> g.layoutNodeMap] >>
              ELSE <<>>)
             \o Slice(Tail(ts), before + g.n, lo, hi)

\* The answer the remote API computes from its data.
DataResponse(p, size, s, e) ==
    LET total == TotalElements(s, e)
    IN  [ data |->
            [ content |-> Slice(Descending(Matching(s, e)), 0, p * size,
                                Min(Min((p + 1) * size, total), ServerCap)),
              totalPages |-> TotalPagesFor(total, size),
              totalElements |-> total ] ]

\* The remote API answers from its data.
NoAnswers == [ once |-> <<>>, by_page |-> <<>>, listing |-> <<>> ]

\* The decoded answer of POST /pipeline/api/pipelines/execution/summary:
\* the next of the answers to be given once, else the answer set for the
\* page, else the answer computed from the data.
ExecResponse(p, size, s, e) ==
    IF answers.once # <<>> THEN Head(answers.once)
    ELSE IF p < Len(answers.by_page) THEN answers.by_page[p + 1]
    ELSE DataResponse(p, size, s, e)

\* The remote API after it has answered an execution-listing request.
Served == [answers EXCEPT !.once = IF @ = <<>> THEN <<>> ELSE Tail(@)]

\* The decoded answer of GET /ng/api/aggregate/projects.
ProjectsResponse(p) ==
    IF p < Len(answers.listing) THEN answers.listing[p + 1]
    ELSE [ data |->
             [ content |-> IF p < Len(projPages) THEN projPages[p + 1] ELSE <<>>,
               totalPages |-> Len(projPages) ] ]

\* ------------------------------------------------------------ pure code

RECURSIVE extract_stage_data_unfiltered(_, _)
\* (mutant) every node with a cd entry is taken, whatever its type
extract_stage_data_unfiltered(layout_node_map, env_filter) ==
    IF layout_node_map = <<>> THEN <<>>
    ELSE LET node_data == Head(layout_node_map)
         IN  (IF node_data.cd
              THEN << [stage_name |-> node_data.name] >> ELSE <<>>)
             \o extract_stage_data_unfiltered(Tail(layout_node_map), env_filter)

RECURSIVE extract_stage_data(_, _)
\* The stage_info of every node that has a cd entry whose
\* infraExecutionSummary type is env_filter, in the order of the map.
extract_stage_data(layout_node_map, env_filter) ==
    IF layout_node_map = <<>> THEN <<>>
    ELSE LET node_data == Head(layout_node_map)
         IN  (IF node_data.cd /\ node_data.type = env_filter
              THEN << [stage_name |-> node_data.name] >> ELSE <<>>)
             \o extract_stage_data(Tail(layout_node_map), env_filter)

RECURSIVE parse_content(_, _)
\* The loop `for execution in content`: one record per stage that
\* extract_stage_data finds with its default filter "Production";
\* `if not stages: continue`.
parse_content(content, project_id) ==
    IF content = <<>> THEN <<>>
    ELSE LET execution == Head(content)
             stages == extract_stage_data(execution.layoutNodeMap, "Production")
         IN  (IF stages = <<>> THEN <<>>
              ELSE << [project |-> project_id, ts |-> execution.ts,
                       n |-> execution.n, stages |-> stages] >>)
             \o parse_content(Tail(content), project_id)

\* `content = response_data.get('data', {}).get('content', [])`
parse_execution_data(response_data, project_id) ==
    parse_content(Get(Get(response_data, "data", <<>>), "content", <<>>),
                  project_id)

\* ------------------------------------------------------------ history

ExecReq(site, p, s, e, ok) ==
    [ type |-> "executions", site |-> site, idx |-> idx,
      project |-> projects[idx], page |-> p, size |-> args.page_size,
      start |-> s, end |-> e, attempt |-> attempt + 1, ok |-> ok ]

\* fetch_all_projects calls fetch_projects with page_size=20
ProjReq(p, ok) == [ type |-> "projects", page |-> p, size |-> 20, ok |-> ok ]

\* response.json() of a request that succeeded
Response(r) == [ type |-> "response", body |-> r ]

\* time.sleep(random.uniform(0.5, 1.0))
Delay == [ type |-> "delay" ]

\* time.sleep(wait_time) of the retry loop
Wait(secs) == [ type |-> "wait", secs |-> secs ]

\* (mutant) the batch fetcher narrows its time range after the first page
batch_time_range_narrowed ==
    [ start |-> current_start,
      end |-> IF batch_page = 0 THEN current_end
              ELSE current_start + (current_end - current_start) \div 2 ]

\* fetch_project_executions_batch: `start_time=start_time, end_time=end_time`
\* of every request, the sub-window it was called with.
batch_time_range == [ start |-> current_start, end |-> current_end ]

\* The request the pending call of fetch_pipeline_executions sends.
PendingReq(ok) ==
    CASE pc = "probe" -> ExecReq("probe", 0, args.start_time, args.end_time, ok)
      [] pc = "pages" -> ExecReq("pages", page, args.start_time, args.end_time, ok)
      [] pc = "batch" -> ExecReq("batch", batch_page, batch_time_range.start,
                                 batch_time_range.end, ok)

\* ------------------------------------------------------------ Init

\* The program's variables when main() begins.
Boot ==
    /\ pc = "main"
    /\ all_projects = <<>>
    /\ page_index = 0
    /\ projects = <<>>
    /\ idx = 1
    /\ total_records = 0
    /\ csv_initialized = FALSE
    /\ csv_file = <<>>
    /\ total_elements = 0
    /\ total_pages = 0
    /\ page = 0
    /\ all_records = <<>>
    /\ current_start = 0
    /\ current_end = 0
    /\ batch_page = 0
    /\ batch_all = <<>>
    /\ attempt = 0
    /\ path = "none"
    /\ log = <<>>
    /\ call_start = 0
    /\ subs = <<>>
    /\ results = <<>>
    /\ failures = 0

Init ==
    /\ args \in Configs
    /\ data \in Datasets(args)
    /\ projPages \in (IF args.project_id # "" THEN {<<>>} ELSE ProjectListings)
    /\ answers = NoAnswers
    /\ Boot

\* ------------------------------------------------------------ any command line, any remote API

\* The command lines over all projects of a window of exactly 10 days.
AnyArgs(creds) ==
    { c \in CommandLines(creds) :
        /\ c.project_id = "" /\ c.exclude_projects = {}
        /\ c.end_time = c.start_time + batch_size_ms - 1 }

BearerOnly == {k \in Credentials : k.auth_token # "" /\ k.api_key = ""}

\* A remote API that holds no execution in the window of c.
NoData(c) ==
    [t \in {c.start_time + o : o \in TimeOffsets} \cap c.start_time..c.end_time
        |-> [n |-> 0, layoutNodeMap |-> <<>>]]

\* One execution, started at t, with the layoutNodeMap m.
Exec(t, m) == [ ts |-> t, n |-> 1, layoutNodeMap |-> m ]

\* layoutNodeMaps: empty, one Production stage, none (a PreProduction
\* stage and a node without a cd entry), two Production stages of three.
NodeMaps ==
    { <<>>,
      << Node("a", "Production") >>,
      << Node("a", "PreProduction"),
         [name |-> "b", cd |-> FALSE, type |-> "Production"] >>,
      << Node("a", "Production"), Node("b", "PreProduction"),
         Node("c", "Production") >> }

\* Page contents of up to three executions, started at s, s+1, s+2.
Contents(s) ==
    UNION { { [i \in 1..k |-> Exec(s + i - 1, m[i])] : m \in [1..k -> NodeMaps] }
            : k \in 0..3 }

\* A well-formed answer.
Page(content, totalPages, totalElements) ==
    [ data |-> [ content |-> content, totalPages |-> totalPages,
                 totalElements |-> totalElements ] ]

\* What the remote API may answer for page p of an execution listing:
\* one execution with 1..3 total pages, or an answer without its data
\* object, without its content, or without its counts.
PageShapes(s, p) ==
    { Page(<< Exec(s + p, << Node("a", "Production") >>) >>, tp, 1) : tp \in 1..3 }
    \cup { <<>>,
           [data |-> [totalPages |-> 3, totalElements |-> 1]],
           [data |-> [content |-> << Exec(s + p, << Node("a", "Production") >>) >>]] }

\* The answers for the pages 0, 1, 2.
PageTables(s) ==
    { << a, b, c >> : a \in PageShapes(s, 0), b \in PageShapes(s, 1),
                      c \in PageShapes(s, 2) }

\* An answer to a probe that counts more than 10000 executions.
Surge == Page(<<>>, 3, 10001)

\* Project listings with duplicates and entries without an identifier
\* (""), of 0, 1, 2 and 3 pages.
AnyListings ==
    { <<>>,
      << <<"p1", "p1">> >>,
      << <<"p1", "", "p2">>, <<"p2", "p1">> >>,
      << <<"p2">>, <<>>, <<"p1">> >> }

\* What the remote API may answer for a page of the project listing: a
\* project with 1..2 total pages, or an answer without its data object,
\* without its content, or without its totalPages.
ListingShapes ==
    { [data |-> [content |-> <<"p1">>, totalPages |-> tp]] : tp \in 1..2 }
    \cup { <<>>,
           [data |-> [totalPages |-> 2]],
           [data |-> [content |-> <<"p1">>]] }

\* Any pair of credentials.
InitCredentials ==
    /\ args \in AnyArgs(Credentials)
    /\ data \in Datasets(args)
    /\ projPages = << <<"p1">> >>
    /\ answers = NoAnswers
    /\ Boot

\* Any project listing.
InitListings ==
    /\ args \in AnyArgs(BearerOnly)
    /\ data = NoData(args)
    /\ projPages \in AnyListings
    /\ answers = NoAnswers
    /\ Boot

\* Any content of a single page.
InitContents ==
    /\ args \in AnyArgs(BearerOnly)
    /\ data = NoData(args)
    /\ projPages = << <<"p1">> >>
    /\ answers \in { [NoAnswers EXCEPT !.by_page = << Page(c, 1, Len(c)) >>] :
                        c \in Contents(args.start_time) }
    /\ Boot

\* The same project twice; its first probe counts more than 10000, every
\* later request is answered by page, well-formed or not.
InitAnswers ==
    /\ args \in AnyArgs(BearerOnly)
    /\ data = NoData(args)
    /\ projPages = << <<"p1", "p1">> >>
    /\ answers \in { [NoAnswers EXCEPT !.once = <<Surge>>, !.by_page = t] :
                        t \in PageTables(args.start_time) }
    /\ Boot

\* Any answers to the project listing.
InitListingAnswers ==
    /\ args \in AnyArgs(BearerOnly)
    /\ data = NoData(args)
    /\ projPages = <<>>
    /\ answers \in { [NoAnswers EXCEPT !.listing = t] :
                        t \in ListingShapes \X ListingShapes }
    /\ Boot

\* One project, any window, a remote API answering from its data.
InitOneProject ==
    /\ args \in {c \in Configs : c.project_id # ""}
    /\ data \in Datasets(args)
    /\ projPages = <<>>
    /\ answers = NoAnswers
    /\ Boot

\* What a project's probe may be answered: no execution, or one with a
\* Production stage.
Outcomes(s) ==
    { Page(<<>>, 0, 0), Page(<< Exec(s, << Node("a", "Production") >>) >>, 1, 1) }

\* Three projects, the probe of each answered with no execution or one.
InitOutcomes ==
    /\ args \in AnyArgs(BearerOnly)
    /\ data = NoData(args)
    /\ projPages = << <<"p1", "p2", "p1">> >>
    /\ answers \in { [NoAnswers EXCEPT !.once = t] :
                        t \in [1..3 -> Outcomes(args.start_time)] }
    /\ Boot

\* The command lines of AnyArgs with one project excluded.
Excluding(creds) ==
    { [c EXCEPT !.exclude_projects = {x}] :
        c \in AnyArgs(creds), x \in ProjectIds }

\* Any project listing, one project excluded.
InitExclusions ==
    /\ args \in Excluding(BearerOnly)
    /\ data = NoData(args)
    /\ projPages \in AnyListings
    /\ answers = NoAnswers
    /\ Boot

InitAny ==
    \/ InitOneProject
    \/ InitCredentials
    \/ InitListings
    \/ InitContents
    \/ InitAnswers
    \/ InitListingAnswers
    \/ InitOutcomes
    \/ InitExclusions

\* ------------------------------------------------------------ main, part 1

\* (mutant) only the absence of both credentials is checked
CredentialsRejected_neither == args.auth_token = "" /\ args.api_key = ""

\* parse_arguments: the two parser.error checks on --auth-token and --api-key
CredentialsRejected ==
    \/ args.auth_token = "" /\ args.api_key = ""
    \/ args.auth_token # "" /\ args.api_key # ""

\* main: parse_arguments ends the run on a rejected command line; then
\* `if args.project_id: projects = [args.project_id]`, else the call of
\* fetch_all_projects begins.
main_start ==
    /\ pc = "main"
    /\ IF CredentialsRejected
       THEN /\ projects' = projects
            /\ pc' = "rejected"
       ELSE IF args.project_id # ""
       THEN /\ projects' = <<args.project_id>>
            /\ pc' = "project_loop"
       ELSE /\ projects' = projects
            /\ pc' = "fetch_projects"
    /\ UNCHANGED << args, data, projPages, answers, all_projects, page_index,
                    idx, total_records, csv_initialized, csv_file,
                    total_elements, total_pages, page, all_records,
                    current_start, current_end, batch_page, batch_all,
                    attempt, path, log, call_start, subs, results, failures >>

\* (mutant) the exception is caught in main's loop, which goes on
Raise_caught == pc' = "write"

\* An exception leaves the function that raised it; nothing in the
\* program catches it, so the run ends.
Raise == pc' = "aborted"

RECURSIVE Distinct(_, _)
\* s without the members of seen and without repetitions.
Distinct(s, seen) ==
    IF s = <<>> THEN <<>>
    ELSE (IF Head(s) \in seen THEN <<>> ELSE <<Head(s)>>)
         \o Distinct(Tail(s), seen \cup {Head(s)})

\* (mutant) an identifier is taken once per page only
Identifiers_distinct(content) == Distinct(SelectSeqBy(content, ProjectIds), {})

\* `if project_identifier: all_projects.append(project_identifier)`
Identifiers(content) == SelectSeqBy(content, ProjectIds)

\* (mutant) the exclusion set is ignored
NotExcluded_none(ps) == SelectSeqBy(ps, ProjectIds)

\* main: `projects = [p for p in all_projects if p not in args.exclude_projects]`
NotExcluded(ps) == SelectSeqBy(ps, ProjectIds \ args.exclude_projects)

\* fetch_all_projects: one turn of its loop whose fetch_projects call
\* succeeds; on `break` the list returns to main, which filters it.
fetch_all_projects ==
    /\ pc = "fetch_projects"
    /\ LET response_data == ProjectsResponse(page_index)
           page_info == Get(response_data, "data", <<>>)
           content == Get(page_info, "content", <<>>)
           totalPages == Get(page_info, "totalPages", 0)
           found == all_projects \o Identifiers(content)
       IN  /\ all_projects' = found
           /\ IF page_index >= totalPages - 1
              THEN /\ page_index' = page_index
                   /\ projects' = NotExcluded(found)
                   /\ log' = log \o << ProjReq(page_index, TRUE),
                                       Response(response_data) >>
                   /\ pc' = "project_loop"
              ELSE /\ page_index' = page_index + 1
                   /\ projects' = projects
                   /\ log' = log \o
                        ( << ProjReq(page_index, TRUE), Response(response_data) >>
                          \o (IF page_index + 1 < totalPages
                              THEN <<Delay>> ELSE <<>>) )
                   /\ pc' = "fetch_projects"
    /\ UNCHANGED << args, data, projPages, answers, idx, total_records,
                    csv_initialized, csv_file, total_elements, total_pages,
                    page, all_records, current_start, current_end, batch_page,
                    batch_all, attempt, path, call_start, subs, results,
                    failures >>

\* (mutant) fetch_projects retries the page after a failed request
fetch_projects_retry ==
    /\ pc = "fetch_projects"
    /\ failures < MaxFailures
    /\ failures' = failures + 1
    /\ log' = Append(log, ProjReq(page_index, FALSE))
    /\ UNCHANGED << args, data, projPages, answers, pc, all_projects,
                    page_index, projects, idx, total_records, csv_initialized,
                    csv_file, total_elements, total_pages, page, all_records,
                    current_start, current_end, batch_page, batch_all,
                    attempt, path, call_start, subs, results >>

\* fetch_projects: requests.get fails; the exception is printed and raised
\* again, with no retry.
fetch_projects_fail ==
    /\ pc = "fetch_projects"
    /\ failures < MaxFailures
    /\ failures' = failures + 1
    /\ log' = Append(log, ProjReq(page_index, FALSE))
    /\ Raise
    /\ UNCHANGED << args, data, projPages, answers, all_projects, page_index,
                    projects, idx, total_records, csv_initialized, csv_file,
                    total_elements, total_pages, page, all_records,
                    current_start, current_end, batch_page, batch_all,
                    attempt, path, call_start, subs, results >>

\* main: `for idx, project_id in enumerate(projects, 1)`: the next project's
\* fetch_project_executions call begins, or the loop is over.
main_project_loop ==
    /\ pc = "project_loop"
    /\ IF idx <= Len(projects)
       THEN /\ pc' = "probe"
            /\ call_start' = Len(log)
            /\ attempt' = 0
            /\ path' = "none"
            /\ subs' = <<>>
            /\ all_records' = <<>>
       ELSE /\ pc' = "done"
            /\ UNCHANGED << call_start, attempt, path, subs, all_records >>
    /\ UNCHANGED << args, data, projPages, answers, all_projects, page_index,
                    projects, idx, total_records, csv_initialized, csv_file,
                    total_elements, total_pages, page, current_start,
                    current_end, batch_page, batch_all, log, results,
                    failures >>

\* ------------------------------------------------------------ fetch_pipeline_executions

\* (mutant) the wait grows from the 0-based attempt number
wait_time_zero_based(a) == a * 2

\* `wait_time = (attempt + 1) * 2`
wait_time(a) == (a + 1) * 2

\* (mutant) the attempts are counted over the whole run, not per request
fetch_pipeline_executions_fail_shared ==
    /\ pc \in {"probe", "pages", "batch"}
    /\ failures < MaxFailures
    /\ failures' = failures + 1
    /\ IF failures < max_retries - 1
       THEN /\ log' = log \o << PendingReq(FALSE), Wait(wait_time(failures)) >>
            /\ attempt' = attempt + 1
            /\ pc' = pc
       ELSE /\ log' = Append(log, PendingReq(FALSE))
            /\ attempt' = attempt
            /\ Raise
    /\ UNCHANGED << args, data, projPages, answers, all_projects, page_index,
                    projects, idx, total_records, csv_initialized, csv_file,
                    total_elements, total_pages, page, all_records,
                    current_start, current_end, batch_page, batch_all, path,
                    call_start, subs, results >>

\* One failed attempt of the retry loop, at any of the three call sites:
\* wait and try again, or raise after the last attempt.
fetch_pipeline_executions_fail ==
    /\ pc \in {"probe", "pages", "batch"}
    /\ failures < MaxFailures
    /\ failures' = failures + 1
    /\ IF attempt < max_retries - 1
       THEN /\ log' = log \o << PendingReq(FALSE), Wait(wait_time(attempt)) >>
            /\ attempt' = attempt + 1
            /\ pc' = pc
       ELSE /\ log' = Append(log, PendingReq(FALSE))
            /\ attempt' = attempt
            /\ Raise
    /\ UNCHANGED << args, data, projPages, answers, all_projects, page_index,
                    projects, idx, total_records, csv_initialized, csv_file,
                    total_elements, total_pages, page, all_records,
                    current_start, current_end, batch_page, batch_all, path,
                    call_start, subs, results >>

\* ------------------------------------------------------------ fetch_project_executions

\* (mutant) the comparison made strict
WithinLimit_strict(te) == te < SplitThreshold

\* `if total_elements <= 10000`
WithinLimit(te) == te <= SplitThreshold

\* (mutant) the loop over the remaining pages starts at page 0 again
range_start_zero == 1 - 1

\* `for page in range(1, total_pages)`: the first page of the loop
range_start == 1

\* `while current_start < end_time`
MoreBatches(cs) == cs < args.end_time

\* (mutant) the sub-window ends where the next one begins
BatchEnd_inclusive(cs) == Min(cs + batch_size_ms, args.end_time)

\* `current_end = min(current_start + batch_size_ms - 1, end_time)`
BatchEnd(cs) == Min(cs + batch_size_ms - 1, args.end_time)

\* (mutant) the loop sleeps after every sub-window
BatchDelay_always(cs) == <<Delay>>

\* `if current_start < end_time: time.sleep(delay)` at the end of a turn of
\* the split loop, current_start being the next sub-window's start
BatchDelay(cs) == IF cs < args.end_time THEN <<Delay>> ELSE <<>>

\* (mutant) the new records are put in front of the list
extend_front(list, more) == more \o list

\* `all_records.extend(batch_records)`
extend(list, more) == list \o more

\* (mutant) the walk stops one page late
LastPage_past(p, tp) == p >= tp

\* (mutant) the last page recognised by equality only
LastPage_equality(p, tp) == p = tp - 1

\* fetch_project_executions_batch: `if page >= total_pages - 1 or total_pages == 0`
LastPage(p, tp) == p >= tp - 1 \/ tp = 0

\* The head of the `while current_start < end_time` loop with current_start
\* = cs: the next call of fetch_project_executions_batch begins, or
\* fetch_project_executions returns. `done` are the sub-windows so far.
SplitLoop(cs, done) ==
    /\ current_start' = cs
    /\ IF MoreBatches(cs)
       THEN /\ current_end' = BatchEnd(cs)
            /\ subs' = Append(done, [ start |-> cs, end |-> BatchEnd(cs),
                                      records |-> <<>>, returned |-> FALSE ])
            /\ pc' = "batch"
       ELSE /\ current_end' = current_end
            /\ subs' = done
            /\ pc' = "write"
    /\ batch_page' = 0
    /\ batch_all' = <<>>

\* The probe of fetch_project_executions succeeds: the first page is
\* parsed and the plain walk begins, or the split loop is entered.
fetch_project_executions_probe ==
    /\ pc = "probe"
    /\ LET response_data ==
               ExecResponse(0, args.page_size, args.start_time, args.end_time)
           page_info == Get(response_data, "data", <<>>)
           totalElements == Get(page_info, "totalElements", 0)
           totalPages == Get(page_info, "totalPages", 0)
       IN  /\ log' = log \o << PendingReq(TRUE), Response(response_data) >>
           /\ total_elements' = totalElements
           /\ IF WithinLimit(totalElements)
              THEN /\ path' = "plain"
                   /\ all_records' =
                        parse_execution_data(response_data, projects[idx])
                   /\ total_pages' = totalPages
                   /\ page' = range_start
                   /\ pc' = IF range_start < totalPages
                            THEN "pages" ELSE "write"
                   /\ UNCHANGED << current_start, current_end, batch_page,
                                   batch_all, subs >>
              ELSE /\ path' = "split"
                   /\ all_records' = <<>>
                   /\ SplitLoop(args.start_time, <<>>)
                   /\ UNCHANGED << total_pages, page >>
    /\ attempt' = 0
    /\ answers' = Served
    /\ UNCHANGED << args, data, projPages, all_projects, page_index, projects,
                    idx, total_records, csv_initialized, csv_file, call_start,
                    results, failures >>

\* One turn of `for page in range(1, total_pages)` whose request succeeds.
fetch_project_executions_page ==
    /\ pc = "pages"
    /\ LET response_data ==
               ExecResponse(page, args.page_size, args.start_time, args.end_time)
       IN  /\ all_records' = all_records \o
                   parse_execution_data(response_data, projects[idx])
           /\ log' = log \o << PendingReq(TRUE), Response(response_data), Delay >>
    /\ page' = page + 1
    /\ pc' = IF page + 1 < total_pages THEN "pages" ELSE "write"
    /\ attempt' = 0
    /\ answers' = Served
    /\ UNCHANGED << args, data, projPages, all_projects, page_index, projects,
                    idx, total_records, csv_initialized, csv_file,
                    total_elements, total_pages, current_start, current_end,
                    batch_page, batch_all, path, call_start, subs, results,
                    failures >>

\* One turn of the loop of fetch_project_executions_batch whose request
\* succeeds; on `break` the batch returns into the split loop, which
\* extends all_records, moves current_start and sleeps before the next
\* batch.
fetch_project_executions_batch ==
    /\ pc = "batch"
    /\ LET response_data ==
               ExecResponse(batch_page, args.page_size, batch_time_range.start,
                            batch_time_range.end)
           totalPages == Get(Get(response_data, "data", <<>>), "totalPages", 0)
           records == parse_execution_data(response_data, projects[idx])
           seen == [subs EXCEPT ![Len(subs)].records = batch_all \o records]
       IN  IF LastPage(batch_page, totalPages)
           THEN /\ all_records' = extend(all_records, batch_all \o records)
                /\ SplitLoop(current_end + 1,
                             [seen EXCEPT ![Len(subs)].returned = TRUE])
                /\ log' = log \o
                     ( << PendingReq(TRUE), Response(response_data) >>
                       \o BatchDelay(current_end + 1) )
           ELSE /\ batch_page' = batch_page + 1
                /\ batch_all' = batch_all \o records
                /\ subs' = seen
                /\ log' = log \o
                     ( << PendingReq(TRUE), Response(response_data) >>
                       \o (IF batch_page + 1 < totalPages
                           THEN <<Delay>> ELSE <<>>) )
                /\ UNCHANGED << all_records, current_start, current_end, pc >>
    /\ attempt' = 0
    /\ answers' = Served
    /\ UNCHANGED << args, data, projPages, all_projects, page_index, projects,
                    idx, total_records, csv_initialized, csv_file,
                    total_elements, total_pages, page, path, call_start,
                    results, failures >>

\* ------------------------------------------------------------ main, part 2

HeaderLine == [ line |-> "header" ]

RECURSIVE RowLines(_)
RowLines(records) ==
    IF records = <<>> THEN <<>>
    ELSE << [ line |-> "rows", record |-> Head(records) ] >> \o RowLines(Tail(records))

\* (mutant) the file is opened in mode 'w' whatever the mode asked for
write_to_csv_truncating(records, file, mode) ==
    IF records = <<>> THEN file ELSE <<HeaderLine>> \o RowLines(records)

\* write_to_csv: nothing for an empty list; mode 'w' truncates and writes
\* the header, mode 'a' appends.
write_to_csv(records, file, mode) ==
    IF records = <<>> THEN file
    ELSE IF mode = "w" THEN <<HeaderLine>> \o RowLines(records)
    ELSE file \o RowLines(records)

\* (mutant) the records are kept in memory and counted, but the file is
\* left to be written when the whole run is over
main_write_deferred ==
    /\ pc = "write"
    /\ IF all_records # <<>>
       THEN /\ csv_initialized' = TRUE
            /\ total_records' = total_records + RowCount(all_records)
       ELSE UNCHANGED << csv_initialized, total_records >>
    /\ log' = IF idx < Len(projects) THEN Append(log, Delay) ELSE log
    /\ results' = Append(results, all_records)
    /\ idx' = idx + 1
    /\ pc' = "project_loop"
    /\ UNCHANGED << args, data, projPages, answers, all_projects, page_index,
                    projects, csv_file, total_elements, total_pages, page,
                    all_records, current_start, current_end, batch_page,
                    batch_all, attempt, path, call_start, subs, failures >>

\* main: fetch_project_executions has returned project_records; they are
\* written, counted, and the loop sleeps before the next project.
main_write ==
    /\ pc = "write"
    /\ IF all_records # <<>>
       THEN /\ csv_file' = write_to_csv(all_records, csv_file,
                                        IF csv_initialized THEN "a" ELSE "w")
            /\ csv_initialized' = TRUE
            /\ total_records' = total_records + RowCount(all_records)
       ELSE UNCHANGED << csv_file, csv_initialized, total_records >>
    /\ log' = IF idx < Len(projects) THEN Append(log, Delay) ELSE log
    /\ results' = Append(results, all_records)
    /\ idx' = idx + 1
    /\ pc' = "project_loop"
    /\ UNCHANGED << args, data, projPages, answers, all_projects, page_index,
                    projects, total_elements, total_pages, page, all_records,
                    current_start, current_end, batch_page, batch_all,
                    attempt, path, call_start, subs, failures >>

\* ------------------------------------------------------------ specification

Next ==
    \/ main_start
    \/ fetch_all_projects
    \/ fetch_projects_fail
    \/ main_project_loop
    \/ fetch_pipeline_executions_fail
    \/ fetch_project_executions_probe
    \/ fetch_project_executions_page
    \/ fetch_project_executions_batch
    \/ main_write

Spec == Init /\ [][Next]_vars

\* The program run on any credentials, against any project listing and
\* any answers of the remote API.
SpecAny == InitAny /\ [][Next]_vars

\* ------------------------------------------------------------ reading the history

\* The events since the current call of fetch_project_executions began.
CallLog == SubSeq(log, call_start + 1, Len(log))

IsExec(ev) == ev.type = "executions"

IsRequest(ev) == ev.type \in {"executions", "projects"}

\* The successful execution-listing requests of l, in order.
OkExec(l) == SelectSeq(l, LAMBDA ev : IsExec(ev) /\ ev.ok)

\* Those sent from one call site: "probe", "pages" or "batch".
OkFrom(l, site) == SelectSeq(l, LAMBDA ev : IsExec(ev) /\ ev.ok /\ ev.site = site)

\* Those sent by the batch fetcher for the time range [s, e].
OkBatch(l, s, e) ==
    SelectSeq(l, LAMBDA ev : IsExec(ev) /\ ev.ok /\ ev.site = "batch"
                             /\ ev.start = s /\ ev.end = e)

PagesOf(l) == [i \in 1..Len(l) |-> l[i].page]

\* <<0, 1, ..., k-1>>
UpTo(k) == [i \in 1..k |-> i - 1]

\* An execution-listing request that failed on its last attempt.
Exhausted(ev) == IsExec(ev) /\ ~ev.ok /\ ev.attempt = max_retries

RECURSIVE RowsAt(_, _)
\* The rows of recs that stem from the executions at time stamp t.
RowsAt(recs, t) ==
    IF recs = <<>> THEN 0
    ELSE (IF Head(recs).ts = t THEN Head(recs).n * Len(Head(recs).stages) ELSE 0)
         + RowsAt(Tail(recs), t)

\* The number of qualifying stages of each execution of a group.
Qualifying(g) == Len(extract_stage_data(g.layoutNodeMap, "Production"))

RECURSIVE Flatten(_)
Flatten(ss) == IF ss = <<>> THEN <<>> ELSE Head(ss) \o Flatten(Tail(ss))

\* fetch_project_executions has returned to main.
Returned == pc = "write"

\* The remote API's counts for the full window.
FullTotal == TotalElements(args.start_time, args.end_time)

FullPages == TotalPagesFor(FullTotal, args.page_size)

\* ------------------------------------------------------------ claims

\* Every 10-day range of the window, counted from start and cut at end,
\* holds no more than the remote API serves for one time range.
Servable ==
    \A j \in 0..1 :
        TotalElements(args.start_time + j * batch_size_ms,
                      Min(args.start_time + (j + 1) * batch_size_ms - 1,
                          args.end_time)) <= ServerCap

\* C1: completeness under splitting. Whenever fetch_project_executions
\* returns for a window [start, end], start < end, none of whose 10-day
\* ranges exceeds what the remote API serves, its result holds, for every
\* time stamp of the window, exactly the rows of the executions the remote
\* API holds there (n executions with k qualifying stages: n*k rows),
\* whether the total is above or below 10000.
C1_Completeness ==
    (Returned /\ args.start_time < args.end_time /\ Servable) =>
        \A t \in DOMAIN data :
            RowsAt(all_records, t) = data[t].n * Qualifying(data[t])

\* C2: window contiguity. When the split path has run, the sub-windows
\* handed to fetch_project_executions_batch start at start, end at end, and
\* each begins one millisecond after its predecessor ends.
C2_WindowContiguity ==
    (Returned /\ path = "split") =>
        /\ subs # <<>>
        /\ subs[1].start = args.start_time
        /\ subs[Len(subs)].end = args.end_time
        /\ \A i \in 1..(Len(subs) - 1) : subs[i].end + 1 = subs[i + 1].start

\* C3: split decision rule. Once the probe of the current project has been
\* answered, exactly one successful probe request was sent, for page 0, the
\* configured page size and the full window, before any other request; the
\* split path is taken iff the remote API's total for the full window is
\* above 10000, and otherwise no sub-window request is sent.
C3_SplitDecision ==
    LET probes == OkFrom(CallLog, "probe")
    IN  /\ Len(probes) = (IF path = "none" THEN 0 ELSE 1)
        /\ path = "none" => OkExec(CallLog) = <<>>
        /\ path # "none" =>
              /\ OkExec(CallLog)[1] = probes[1]
              /\ probes[1].page = 0
              /\ probes[1].size = args.page_size
              /\ probes[1].start = args.start_time
              /\ probes[1].end = args.end_time
              /\ (path = "split") <=> (FullTotal > 10000)
        /\ path # "split" =>
              \A i \in DOMAIN CallLog :
                  IsExec(CallLog[i]) => CallLog[i].site # "batch"

\* C3 witness: a total of exactly 10000 was probed and the plain walk ran
\* to its end.
C3_Witness == Returned /\ path = "plain" /\ FullTotal = 10000 /\ total_pages = 2

RECURSIVE PagesParsed(_)
\* The records of the answers to the requests l, parsed in order.
PagesParsed(l) ==
    IF l = <<>> THEN <<>>
    ELSE parse_execution_data(
             ExecResponse(Head(l).page, Head(l).size, Head(l).start,
                          Head(l).end),
             Head(l).project)
         \o PagesParsed(Tail(l))

\* C4: no double-counting of the probe. When fetch_project_executions
\* returns on the plain path, every page 0..totalPages-1 of the full window
\* was fetched successfully exactly once, page 0 by the probe alone, and
\* the result is the answers parsed once each in order; on the split path
\* the result is the answers to the sub-window requests parsed once each,
\* without the probe's records, and no sub-window page was fetched twice.
C4_NoDoubleCount ==
    Returned =>
        LET ok == OkExec(CallLog)
            batch == OkFrom(CallLog, "batch")
        IN  /\ path = "plain" =>
                /\ \A p \in 0..(FullPages - 1) :
                      Cardinality({i \in DOMAIN ok : ok[i].page = p}) = 1
                /\ ok[1].site = "probe"
                /\ \A i \in 2..Len(ok) : ok[i].site = "pages" /\ ok[i].page # 0
                /\ all_records = PagesParsed(ok)
            /\ path = "split" =>
                /\ all_records = PagesParsed(batch)
                /\ \A i, j \in DOMAIN batch :
                      ( /\ batch[i].page = batch[j].page
                        /\ batch[i].start = batch[j].start
                        /\ batch[i].end = batch[j].end ) => i = j

\* C4 witness: the plain path returned two pages' records, the probe's first.
C4_Witness ==
    /\ Returned
    /\ path = "plain"
    /\ FullPages = 2
    /\ Len(all_records) = 2

C6_NoProjectRetry ==
    \A i \in DOMAIN log :
        (log[i].type = "projects" /\ ~log[i].ok) =>
            /\ i = Len(log)
            /\ pc = "aborted"
            /\ \A j \in 1..(i - 1) :
                  (log[j].type = "projects" /\ log[j].page = log[i].page)
                  => FALSE

\* C6 witness: the request for the second project page failed.
C6_Witness ==
    /\ pc = "aborted"
    /\ log # <<>>
    /\ log[Len(log)] = ProjReq(1, FALSE)

\* C7: pagination termination. For every sub-window handed to
\* fetch_project_executions_batch, with P the (constant) totalPages the
\* remote API reports for it: once the batch has returned, its successful
\* requests were for the pages 0..max(1,P)-1 in ascending order, one each,
\* and with P = 0 its result is empty; while it runs, the pages requested
\* so far are a proper prefix of that sequence.
C7_PaginationTermination ==
    \A i \in DOMAIN subs :
        LET b == subs[i]
            P == TotalPagesFor(TotalElements(b.start, b.end), args.page_size)
            got == PagesOf(OkBatch(CallLog, b.start, b.end))
        IN  /\ b.returned =>
                /\ got = UpTo(Max(1, P))
                /\ P = 0 => b.records = <<>>
            /\ ~b.returned =>
                /\ Len(got) < Max(1, P)
                /\ got = UpTo(Len(got))

\* C7 witness: a batch over an empty sub-window has returned, and a batch
\* over a sub-window of three pages has returned.
C7_Witness ==
    /\ \E i \in DOMAIN subs :
          subs[i].returned /\ TotalElements(subs[i].start, subs[i].end) = 0
    /\ \E i \in DOMAIN subs :
          /\ subs[i].returned
          /\ Len(OkBatch(CallLog, subs[i].start, subs[i].end)) = 3

\* ceil(a / b)
CeilDiv(a, b) == (a + b - 1) \div b

\* C8: sub-window count and order. When the split path has run over the
\* window [start, end] of L = end - start + 1 milliseconds, the batch
\* fetcher ran on exactly ceil(L / W) sub-windows (W the 10-day width), each
\* starting with its own page-0 request, in strictly increasing start
\* order, and the result is the sub-window results concatenated in that
\* order.
C8_SubWindowCount ==
    (Returned /\ path = "split") =>
        /\ Len(subs) = CeilDiv(args.end_time - args.start_time + 1, batch_size_ms)
        /\ \A i \in DOMAIN subs :
              /\ OkBatch(CallLog, subs[i].start, subs[i].end) # <<>>
              /\ OkBatch(CallLog, subs[i].start, subs[i].end)[1].page = 0
        /\ \A i \in 1..(Len(subs) - 1) : subs[i].start < subs[i + 1].start
        /\ all_records = Flatten([i \in DOMAIN subs |-> subs[i].records])

\* C9: abort on terminal failure. After an execution-listing request has
\* failed on its third attempt no further request is sent in the run, to
\* either endpoint, and the run has ended.
C9_AbortOnExhaustion ==
    \A i \in DOMAIN log :
        Exhausted(log[i]) =>
            /\ pc = "aborted"
            /\ \A j \in (i + 1)..Len(log) : ~IsRequest(log[j])

\* C9 witness: the retries were exhausted on a page after the first while
\* fetching the first of two projects.
C9_Witness ==
    /\ log # <<>>
    /\ Exhausted(log[Len(log)])
    /\ log[Len(log)].idx = 1
    /\ log[Len(log)].page > 0
    /\ Len(projects) = 2

\* The lines of the output file that hold exactly the records recs.
FileOf(recs) == IF recs = <<>> THEN <<>> ELSE <<HeaderLine>> \o RowLines(recs)

\* C10: partial output is preserved. Once the retries were exhausted while
\* fetching the project at position k, the output file holds the header
\* and exactly the records fetch_project_executions returned for the
\* projects 1..k-1, in order (nothing if there are none), and no line of it
\* stems from a project at position k or later.
C10_PartialOutput ==
    \A i \in DOMAIN log :
        Exhausted(log[i]) =>
            LET k == log[i].idx
            IN  /\ Len(results) >= k - 1
                /\ csv_file = FileOf(Flatten(SubSeq(results, 1, k - 1)))
                /\ \A l \in DOMAIN csv_file :
                      csv_file[l].line = "rows" =>
                          \E j \in 1..(k - 1) :
                              csv_file[l].record.project = projects[j]

\* C10 witness: the first project's records are in the file, and the run
\* ended in the second project after records of it had been fetched.
C10_Witness ==
    /\ log # <<>>
    /\ Exhausted(log[Len(log)])
    /\ log[Len(log)].idx = 2
    /\ csv_file # <<>>
    /\ (all_records # <<>> \/ batch_all # <<>>)

\* The requests whose answers fetch_project_executions parses: every
\* successful one but a probe that counted more than 10000.
Contributing(l) ==
    SelectSeq(l, LAMBDA ev :
        /\ IsExec(ev) /\ ev.ok
        /\ ev.site = "probe" => WithinLimit(TotalElements(ev.start, ev.end)))

\* (project position, sub-window, page) of request a is before that of b.
LexBefore(a, b) ==
    \/ a.idx < b.idx
    \/ a.idx = b.idx /\ a.start < b.start
    \/ a.idx = b.idx /\ a.start = b.start /\ a.page < b.page

\* The position of the node called name in a layoutNodeMap.
NodePos(layout_node_map, name) ==
    CHOOSE k \in DOMAIN layout_node_map : layout_node_map[k].name = name

\* C11: delivery order. When the run has completed, the output file holds
\* the header and then the records of the parsed answers, answer by answer
\* in the order of (project position, sub-window, page), each answer's
\* executions in the order of its content and each execution's stages in
\* the order of its layoutNodeMap; nothing is reordered or interleaved.
C11_DeliveryOrder ==
    pc = "done" =>
        LET from == Contributing(log)
        IN  /\ csv_file = FileOf(PagesParsed(from))
            /\ \A i \in 1..(Len(from) - 1) : LexBefore(from[i], from[i + 1])
            /\ \A l \in DOMAIN csv_file :
                  csv_file[l].line = "rows" =>
                      LET r == csv_file[l].record
                      IN  \A a, b \in DOMAIN r.stages :
                              a < b =>
                                  NodePos(data[r.ts].layoutNodeMap,
                                          r.stages[a].stage_name)
                                  < NodePos(data[r.ts].layoutNodeMap,
                                            r.stages[b].stage_name)

\* C11 witness: a completed run over two projects, each split into two
\* sub-windows that both gave records, one of them with two stages per
\* execution and more than one page.
C11_Witness ==
    /\ pc = "done"
    /\ Len(results) = 2
    /\ \A k \in 1..2 :
          /\ Len(results[k]) >= 3
          /\ results[k][1].ts < results[k][Len(results[k])].ts
          /\ Len(results[k][1].stages) = 2
    /\ \E i \in DOMAIN log :
          IsExec(log[i]) /\ log[i].ok /\ log[i].site = "batch" /\ log[i].page = 1

\* The nodes of a layoutNodeMap whose infraExecutionSummary type is
\* "Production", the one filter parse_execution_data ever applies.
QualifyingNodes(layout_node_map) ==
    { k \in DOMAIN layout_node_map :
        layout_node_map[k].cd /\ layout_node_map[k].type = "Production" }

\* The content of an answer, as the program reads it.
ContentOf(r) == Get(Get(r, "data", <<>>), "content", <<>>)

\* The rows are one per (execution, qualifying stage) of the content:
\* each execution has as many rows as qualifying stages, each row names a
\* qualifying stage of its execution, and there is no other row.
OneRowPerStage(rows, content) ==
    /\ \A k \in DOMAIN content :
          RowsAt(rows, content[k].ts)
          = content[k].n * Cardinality(QualifyingNodes(content[k].layoutNodeMap))
    /\ \A j \in DOMAIN rows :
          /\ rows[j].stages # <<>>
          /\ \E k \in DOMAIN content :
                /\ content[k].ts = rows[j].ts
                /\ \A a \in DOMAIN rows[j].stages :
                      \E q \in QualifyingNodes(content[k].layoutNodeMap) :
                          content[k].layoutNodeMap[q].name
                          = rows[j].stages[a].stage_name

\* C12: zero-stage drop. For every answer received, parse_execution_data
\* gives exactly one row per (execution, qualifying stage) pair, a stage
\* qualifying iff its infraExecutionSummary type is the filter
\* ("Production"); an execution without a qualifying stage gives no row,
\* and no row is without a stage. When fetch_project_executions returns
\* after a single answered request on the plain path, its result is these
\* rows.
C12_ZeroStageDrop ==
    /\ \A i \in DOMAIN log :
          (log[i].type = "response" /\ IsExec(log[i - 1])) =>
              OneRowPerStage(parse_execution_data(log[i].body, log[i - 1].project),
                             ContentOf(log[i].body))
    /\ (Returned /\ path = "plain" /\ Len(OkExec(CallLog)) = 1) =>
          OneRowPerStage(all_records, ContentOf(CallLog[Len(CallLog)].body))

\* C12 witness: an answer of three executions with one, one and no
\* qualifying stage was parsed into exactly two rows.
C12_Witness ==
    /\ Returned
    /\ path = "plain"
    /\ Len(OkExec(CallLog)) = 1
    /\ LET content == ContentOf(CallLog[Len(CallLog)].body)
       IN  /\ Len(content) = 3
           /\ Cardinality(QualifyingNodes(content[1].layoutNodeMap)) = 1
           /\ Cardinality(QualifyingNodes(content[2].layoutNodeMap)) = 1
           /\ content[3].layoutNodeMap # <<>>
           /\ QualifyingNodes(content[3].layoutNodeMap) = {}
    /\ RowCount(all_records) = 2

\* A request to either endpoint has been sent.
RequestSent == \E i \in DOMAIN log : IsRequest(log[i])

\* C13: credential exclusivity. A command line with both --auth-token and
\* --api-key, or with neither, is rejected before any request is sent;
\* once a request has been sent, exactly one of the two is present.
C13_CredentialExclusivity ==
    /\ ( \/ args.auth_token # "" /\ args.api_key # ""
         \/ args.auth_token = "" /\ args.api_key = "" ) =>
            /\ pc \in {"main", "rejected"}
            /\ ~RequestSent
    /\ RequestSent => (args.auth_token # "") # (args.api_key # "")

\* C13 witness: a command line with both credentials has been rejected,
\* with nothing sent.
C13_Witness ==
    /\ pc = "rejected"
    /\ args.auth_token # ""
    /\ args.api_key # ""
    /\ log = <<>>

\* The successful execution-listing requests at i < j of the log, with no
\* other between them.
NextOk(i, j) ==
    /\ i < j
    /\ IsExec(log[i]) /\ log[i].ok
    /\ IsExec(log[j]) /\ log[j].ok
    /\ \A k \in (i + 1)..(j - 1) : ~(IsExec(log[k]) /\ log[k].ok)

\* The throttling delays between the positions i and j of the log.
DelaysBetween(i, j) == Cardinality({k \in (i + 1)..(j - 1) : log[k] = Delay})

\* The requests at i and j fetch pages of one time range in one page walk:
\* both in the plain walk (the probe being its page 0), or both in the
\* batch fetcher's walk of one sub-window.
SameWalk(i, j) ==
    /\ log[i].idx = log[j].idx
    /\ \/ log[i].site \in {"probe", "pages"} /\ log[j].site = "pages"
       \/ /\ log[i].site = "batch" /\ log[j].site = "batch"
          /\ log[i].start = log[j].start

\* C14: page throttling. Between every two consecutive page fetches of one
\* time range, in the batch fetcher and on the plain path alike, and
\* beginning with pages 0 and 1, there is exactly one throttling delay;
\* after the last page of a range there is none: a returned
\* fetch_project_executions did not end on a delay, and between the last
\* page of a sub-window and the first of the next there is no delay but
\* the one between sub-windows.
C14_PageThrottling ==
    /\ \A i, j \in DOMAIN log :
          NextOk(i, j) /\ SameWalk(i, j) => DelaysBetween(i, j) = 1
    /\ \A i, j \in DOMAIN log :
          ( /\ NextOk(i, j)
            /\ log[i].idx = log[j].idx
            /\ log[i].site = "batch" /\ log[j].site = "batch"
            /\ log[i].start # log[j].start ) => DelaysBetween(i, j) <= 1
    /\ (Returned /\ CallLog # <<>>) => CallLog[Len(CallLog)] # Delay

\* The request at j is the first one the batch fetcher sends for a
\* sub-window after the first.
FirstOfNextSub(j) ==
    /\ IsExec(log[j]) /\ log[j].site = "batch"
    /\ log[j].page = 0 /\ log[j].attempt = 1
    /\ log[j].start # args.start_time

\* C15: sub-window throttling. On the split path the first request for
\* every sub-window after the first comes after exactly one throttling
\* delay, which follows the last answer of the sub-window before; and when
\* fetch_project_executions returns, nothing was slept after the last
\* sub-window's last answer.
C15_SubWindowThrottling ==
    /\ \A j \in DOMAIN log :
          FirstOfNextSub(j) =>
              /\ j > 3
              /\ log[j - 1] = Delay
              /\ log[j - 2].type = "response"
              /\ IsExec(log[j - 3]) /\ log[j - 3].ok
              /\ log[j - 3].site = "batch"
              /\ log[j - 3].idx = log[j].idx
              /\ log[j - 3].end + 1 = log[j].start
    /\ (Returned /\ path = "split" /\ subs # <<>>) =>
          /\ CallLog[Len(CallLog)].type = "response"
          /\ CallLog[Len(CallLog) - 1].site = "batch"
          /\ CallLog[Len(CallLog) - 1].start = subs[Len(subs)].start
    /\ (path = "split" /\ pc = "batch" /\ attempt = 0 /\ batch_page = 0
          /\ Len(subs) > 1) => log[Len(log)] = Delay

\* C15 witness: the split path has returned after two sub-windows.
C15_Witness ==
    /\ Returned
    /\ path = "split"
    /\ Len(subs) = 2
    /\ subs[2].returned
    /\ \E j \in DOMAIN log : FirstOfNextSub(j)

\* The successful project-listing requests, in order.
OkProjects == SelectSeq(log, LAMBDA ev : ev.type = "projects" /\ ev.ok)

\* fetch_all_projects has returned its list.
ListingReturned ==
    /\ OkProjects # <<>>
    /\ pc # "fetch_projects"
    /\ ~(pc = "aborted" /\ log[Len(log)].type = "projects")

\* The identifiers on the first k pages of the project listing, in order.
ListedOn(k) ==
    SelectSeq(Flatten(SubSeq(projPages, 1, Min(k, Len(projPages)))),
              LAMBDA id : id # "")

\* C16: project enumeration completeness. Against a remote API whose
\* project listing has P pages (and reports totalPages = P with each),
\* every project-listing request asks for 20 entries; once
\* fetch_all_projects has returned, its successful requests were for the
\* pages 0..max(1,P)-1 in ascending order, one each, and its list is the
\* identifiers of the pages in order, repetitions kept; until then the
\* pages requested are a prefix of these and the list holds their
\* identifiers.
C16_ProjectEnumeration ==
    answers.listing = <<>> =>
        LET P == Len(projPages)
            got == PagesOf(OkProjects)
        IN  /\ \A i \in DOMAIN log :
                  log[i].type = "projects" => log[i].size = 20
            /\ got = UpTo(Len(got))
            /\ Len(got) <= Max(1, P)
            /\ all_projects = ListedOn(Len(got))
            /\ ListingReturned =>
                  /\ Len(got) = Max(1, P)
                  /\ all_projects = ListedOn(P)
            /\ pc = "fetch_projects" => Len(got) < Max(1, P)

\* C16 witness: a listing of two pages with repeated identifiers and an
\* entry without identifier has been returned.
C16_Witness ==
    /\ answers.listing = <<>>
    /\ ListingReturned
    /\ Len(projPages) = 2
    /\ all_projects = <<"p1", "p2", "p2", "p1">>

\* An answer without its data object.
LacksData(r) == "data" \notin DOMAIN r

\* C17: malformed response leniency, for an answer that lacks its data
\* object. Such an answer is no failure, gives no record, and is the last
\* answer of its page walk: no further request for the same project and
\* time range follows it, and after such an answer to a project-listing
\* request no further project-listing request follows.
C17_MalformedLeniency ==
    /\ pc = "aborted" => ~log[Len(log)].ok
    /\ \A i \in DOMAIN log :
          (log[i].type = "response" /\ LacksData(log[i].body)) =>
              LET q == log[i - 1]
              IN  /\ IsExec(q) =>
                        /\ parse_execution_data(log[i].body, q.project) = <<>>
                        /\ \A j \in (i + 1)..Len(log) :
                              IsExec(log[j]) =>
                                  ~( /\ log[j].idx = q.idx
                                     /\ log[j].start = q.start
                                     /\ log[j].end = q.end )
                  /\ q.type = "projects" =>
                        \A j \in (i + 1)..Len(log) : log[j].type # "projects"

\* C18: sub-window shape. Every sub-window [s, e] handed to the batch
\* fetcher lies in the window, start <= s <= e <= end, and is at most 10
\* days wide; every one but the last is exactly 10 days wide, and the
\* sub-windows do not overlap: each begins after its predecessor ends.
\* The batch fetcher runs on the sub-window produced last.
C18_SubWindowShape ==
    /\ \A i \in DOMAIN subs :
          /\ subs[i].start <= subs[i].end
          /\ args.start_time <= subs[i].start
          /\ subs[i].end <= args.end_time
          /\ subs[i].end - subs[i].start + 1 <= batch_size_ms
          /\ i < Len(subs) => subs[i].end - subs[i].start + 1 = batch_size_ms
    /\ \A i, j \in DOMAIN subs : i < j => subs[i].end < subs[j].start
    /\ pc = "batch" =>
          /\ subs # <<>>
          /\ batch_time_range.start = subs[Len(subs)].start
          /\ batch_time_range.end = subs[Len(subs)].end

\* C18 witness: the split path has returned after a sub-window of exactly
\* 10 days and a shorter last one.
C18_Witness ==
    /\ Returned
    /\ path = "split"
    /\ Len(subs) = 2
    /\ subs[1].end - subs[1].start + 1 = batch_size_ms
    /\ subs[2].end - subs[2].start + 1 < batch_size_ms
    /\ subs[2].returned

\* The sub-window the split loop cuts at current_start = s.
Cut(s) == [ start |-> s, end |-> Min(s + batch_size_ms - 1, args.end_time) ]

\* C19: no recursive re-splitting. Every request the batch fetcher sends,
\* answered or not, is for the whole of a sub-window the split loop cut, 10
\* days from a multiple of 10 days after start or up to end, never for a
\* narrower range; each sub-window is walked once, its pages requested in
\* ascending order from page 0, also when its own page 0 reports more than
\* 10000 executions.
C19_NoResplit ==
    /\ \A i \in DOMAIN log :
          (IsExec(log[i]) /\ log[i].site = "batch") =>
              /\ (log[i].start - args.start_time) % batch_size_ms = 0
              /\ [start |-> log[i].start, end |-> log[i].end] = Cut(log[i].start)
    /\ \A i \in DOMAIN subs :
          /\ [start |-> subs[i].start, end |-> subs[i].end] = Cut(subs[i].start)
          /\ (subs[i].start - args.start_time) % batch_size_ms = 0
          /\ LET got == PagesOf(OkBatch(CallLog, subs[i].start, subs[i].end))
             IN  got = UpTo(Len(got))
          /\ \A j \in DOMAIN subs : subs[j].start = subs[i].start => j = i

\* C19 witness: the batch fetcher has returned from a sub-window for which
\* the remote API counts more than 10000 executions, after three pages.
C19_Witness ==
    \E i \in DOMAIN subs :
        /\ subs[i].returned
        /\ TotalElements(subs[i].start, subs[i].end) > 10000
        /\ Len(OkBatch(CallLog, subs[i].start, subs[i].end)) = 3

\* The successful requests of the fetch for the project at position k.
OkOf(k) == SelectSeq(log, LAMBDA ev : IsExec(ev) /\ ev.ok /\ ev.idx = k)

\* The same project was fetched twice over the same window, with every
\* page request answered by page from the same answers: first by
\* fetch_project_executions_batch over the whole window (after a probe
\* that counted more than 10000), then by the plain path.
BothWalks ==
    /\ Len(results) = 2
    /\ projects = <<"p1", "p1">>
    /\ answers.by_page # <<>>
    /\ OkOf(1) # <<>>
    /\ OkOf(1)[1].site = "probe"
    /\ \A i \in 2..Len(OkOf(1)) :
          /\ OkOf(1)[i].site = "batch"
          /\ OkOf(1)[i].start = args.start_time
          /\ OkOf(1)[i].end = args.end_time
    /\ \A i \in DOMAIN OkOf(2) : OkOf(2)[i].site \in {"probe", "pages"}

\* C20: equivalence of the two page walks. For the same window and the
\* same answers by page (totalPages varying from page to page or not,
\* totalElements at most 10000), the batch fetcher and the plain path sent
\* requests for the same sequence of pages and returned the same records.
C20_WalkEquivalence ==
    BothWalks =>
        /\ PagesOf(Tail(OkOf(1))) = PagesOf(OkOf(2))
        /\ results[1] = results[2]

\* A throttling sleep or a backoff wait.
IsPause(ev) == ev.type \in {"delay", "wait"}

\* The requests at i < j of the log, to either endpoint, answered or not,
\* with no other request between them.
NextRequest(i, j) ==
    /\ i < j
    /\ IsRequest(log[i])
    /\ IsRequest(log[j])
    /\ \A k \in (i + 1)..(j - 1) : ~IsRequest(log[k])

\* C21: inter-call throttling. Between every two consecutive requests of a
\* run, project-listing or execution-listing, across pages, sub-windows,
\* probes and projects, the run has slept at least once: a throttling
\* delay or a backoff wait.
C21_InterCallThrottling ==
    \A i, j \in DOMAIN log :
        NextRequest(i, j) => \E k \in (i + 1)..(j - 1) : IsPause(log[k])

\* The events a and b are attempts of one call of fetch_pipeline_executions.
SameRequest(a, b) ==
    [a EXCEPT !.attempt = 0, !.ok = TRUE] = [b EXCEPT !.attempt = 0, !.ok = TRUE]

\* The attempt at position i of the log, numbered a, ends a row of exactly
\* a attempts of one request: the attempts 1..a-1 failed and were each
\* followed by a wait of twice their number of seconds, and no wait
\* comes before attempt 1.
AttemptRow(i) ==
    LET a == log[i].attempt
        first == i - 2 * (a - 1)
    IN  /\ a \in 1..max_retries
        /\ first >= 1
        /\ \A b \in 1..(a - 1) :
              LET at == i - 2 * (a - b)
              IN  /\ IsExec(log[at])
                  /\ ~log[at].ok
                  /\ log[at].attempt = b
                  /\ SameRequest(log[at], log[i])
                  /\ log[at + 1] = Wait(2 * b)
        /\ first > 1 =>
              /\ log[first - 1].type # "wait"
              /\ ~(IsExec(log[first - 1]) /\ ~log[first - 1].ok)

\* C22: retry state is per request. Every attempt of
\* fetch_pipeline_executions numbered k is the k-th of a row of attempts of
\* its own request, 1 <= k <= 3, with waits of 2, ..., 2(k-1) seconds
\* before the attempts 2..k; the attempt that succeeds is followed by its
\* answer and by no further attempt of that request; every request begins
\* at attempt 1 whatever failed before it, and only a third failed attempt
\* of one request ends the run.
C22_RetryPerRequest ==
    /\ \A i \in DOMAIN log :
          IsExec(log[i]) =>
              /\ AttemptRow(i)
              /\ log[i].ok =>
                    /\ i < Len(log)
                    /\ log[i + 1].type = "response"
                    /\ \A j \in (i + 1)..Len(log) :
                          IsExec(log[j]) => ~SameRequest(log[j], log[i])
    /\ (pc \in {"probe", "pages", "batch"} /\ log # <<>>
          /\ log[Len(log)].type # "wait") => attempt = 0
    /\ (pc = "aborted" /\ IsExec(log[Len(log)])) =>
          log[Len(log)].attempt = max_retries

\* C22 witness: a page was answered on its third attempt after an earlier
\* page of the same project had needed a second attempt.
C22_Witness ==
    \E i, j \in DOMAIN log :
        /\ i < j
        /\ IsExec(log[i]) /\ ~log[i].ok
        /\ IsExec(log[j]) /\ log[j].ok /\ log[j].attempt = 3
        /\ log[i].idx = log[j].idx
        /\ ~SameRequest(log[i], log[j])
        /\ log[j + 1].type = "response"

\* The totalPages of an answer, as the program reads it.
TotalPagesOf(r) == Get(Get(r, "data", <<>>), "totalPages", 0)

\* The positions in the log of the requests, answered or not, of the walk
\* of fetch_project_executions_batch for the project at position k over
\* the sub-window starting at s.
BatchWalk(k, s) ==
    { i \in DOMAIN log :
        /\ IsExec(log[i]) /\ log[i].site = "batch"
        /\ log[i].idx = k /\ log[i].start = s }

\* Those of the walk of fetch_all_projects.
ListingWalk == { i \in DOMAIN log : log[i].type = "projects" }

\* The batch walks begun so far.
BatchWalks ==
    { BatchWalk(log[i].idx, log[i].start) :
        i \in { j \in DOMAIN log : IsExec(log[j]) /\ log[j].site = "batch" } }

\* The answered requests of a walk.
Answered(w) == { i \in w : log[i].ok }

\* The largest totalPages reported in the answers of a walk (0 if none).
Reported(w) == SetMax({ TotalPagesOf(log[i + 1].body) : i \in Answered(w) } \cup {0})

\* The walk w asks for the pages 0, 1, 2, ... in order, each once it has
\* the answer for the page before; it goes on after an answer only if that
\* answer's own totalPages leaves a page to fetch; and it has no more
\* answered requests than the largest totalPages reported in it (one, if
\* that is 0).
WalkBounded(w) ==
    /\ \A i \in w : log[i].page = Cardinality({ j \in Answered(w) : j < i })
    /\ \A i \in Answered(w) :
          (\E j \in w : j > i) =>
              log[i].page < TotalPagesOf(log[i + 1].body) - 1
    /\ Cardinality(Answered(w)) <= Max(1, Reported(w))

\* The last answer of the walk w leaves a page to fetch.
Unfinished(w) ==
    \/ Answered(w) = {}
    \/ LET last == SetMax(Answered(w))
       IN  log[last].page < TotalPagesOf(log[last + 1].body) - 1

\* C23: bounded page walk. Every walk of fetch_project_executions_batch
\* and of fetch_all_projects requests the pages 0, 1, 2, ... in steps of
\* one, none twice, and decides after every answer from that answer's
\* totalPages whether to go on; with B the largest totalPages reported in
\* the walk (hence for any bound on what the remote API reports) it has at
\* most max(1, B) answered requests, fewer while it still runs, and a
\* batch walk at most 3 * max(1, B) attempts.
C23_BoundedPageWalk ==
    /\ \A w \in BatchWalks :
          /\ WalkBounded(w)
          /\ Cardinality(w) <= max_retries * Max(1, Reported(w))
    /\ WalkBounded(ListingWalk)
    /\ pc = "batch" =>
          LET w == BatchWalk(idx, current_start)
          IN  /\ Unfinished(w)
              /\ Cardinality(Answered(w)) < Max(1, Reported(w))
    /\ pc = "fetch_projects" =>
          /\ Unfinished(ListingWalk)
          /\ Cardinality(Answered(ListingWalk)) < Max(1, Reported(ListingWalk))
    /\ pc \in {"write", "project_loop", "done"} =>
          /\ \A w \in BatchWalks : ~Unfinished(w)
          /\ ListingWalk # {} => ~Unfinished(ListingWalk)

\* C23 witness: a batch walk has returned after two answers that reported
\* 3 and then 2 total pages, the second after a failed attempt.
C23_Witness ==
    /\ Returned
    /\ \E w \in BatchWalks :
          /\ Cardinality(Answered(w)) = 2
          /\ Cardinality(w) = 3
          /\ \E i, j \in Answered(w) :
                /\ i < j
                /\ TotalPagesOf(log[i + 1].body) = 3
                /\ TotalPagesOf(log[j + 1].body) = 2

\* The records of the data rows of the output file, in order.
FileRecords ==
    LET rows == SelectSeq(csv_file, LAMBDA l : l.line = "rows")
    IN  [i \in DOMAIN rows |-> rows[i].record]

\* C24: output accumulator. At every point of main's loop over the
\* projects the output file is either untouched, and then no project so
\* far gave a record, or it is one header followed by the records of the
\* projects so far in order, each project's records once; csv_initialized
\* is true iff total_records > 0 iff some project so far gave a record,
\* and total_records is the number of data rows in the file.
C24_OutputAccumulator ==
    /\ csv_initialized <=> total_records > 0
    /\ csv_initialized <=> \E k \in DOMAIN results : results[k] # <<>>
    /\ total_records = RowCount(FileRecords)
    /\ ~csv_initialized => csv_file = <<>>
    /\ csv_initialized =>
          /\ csv_file[1] = HeaderLine
          /\ \A l \in 2..Len(csv_file) : csv_file[l].line = "rows"
    /\ FileRecords = Flatten(results)
    /\ pc = "write" => Len(results) = idx - 1

\* C24 witness: the first project gave no record and left the file
\* untouched, the second created it and the third was appended.
C24_Witness ==
    /\ Len(results) = 3
    /\ results[1] = <<>>
    /\ results[2] # <<>>
    /\ results[3] # <<>>
    /\ csv_file = <<HeaderLine>> \o RowLines(results[2]) \o RowLines(results[3])
    /\ total_records = 2

\* The enumerated projects that are not in the exclusion set, in the order
\* of the enumeration, repetitions kept.
Kept == SelectSeq(all_projects, LAMBDA p : p \notin args.exclude_projects)

\* The first attempts of the probes sent so far: one per project fetch.
Fetches ==
    SelectSeq(log, LAMBDA ev : IsExec(ev) /\ ev.site = "probe" /\ ev.attempt = 1)

\* C25: project exclusion. In a run over all projects no execution-listing
\* request is sent for a project of the exclusion set; once the projects
\* are enumerated, the list main walks is the enumerated list without the
\* excluded projects, order and repetitions kept, the fetches begun so far
\* are for its first entries in order, one fetch per entry, every request
\* names the project at its position, and a completed run has fetched
\* every entry.
C25_ProjectExclusion ==
    args.project_id = "" =>
        /\ \A i \in DOMAIN log :
              IsExec(log[i]) =>
                  /\ log[i].project \notin args.exclude_projects
                  /\ log[i].idx \in DOMAIN Kept
                  /\ log[i].project = Kept[log[i].idx]
        /\ ListingReturned => projects = Kept
        /\ Len(Fetches) <= Len(Kept)
        /\ \A k \in DOMAIN Fetches :
              Fetches[k].idx = k /\ Fetches[k].project = Kept[k]
        /\ pc = "done" => Len(Fetches) = Len(Kept)

\* C25 witness: of the enumerated p1, p2, p2, p1 with p1 excluded, p2 was
\* fetched twice and the run has completed.
C25_Witness ==
    /\ pc = "done"
    /\ args.project_id = ""
    /\ args.exclude_projects = {"p1"}
    /\ all_projects = <<"p1", "p2", "p2", "p1">>
    /\ [k \in DOMAIN Fetches |-> Fetches[k].project] = <<"p2", "p2">>
    /\ Len(results) = 2

====
